---- MODULE Spec2Model ----
(***************************************************************************)
(* Model of src/latexmd.py: the LaTeXPreprocessor of a Python-Markdown     *)
(* extension that replaces delimited LaTeX regions of a document by inline *)
(* images, with a persistent cache file latex.cache.                       *)
(*                                                                         *)
(* A text is a sequence of elements.  An element is a record [c |-> ch]    *)
(* for one character ch of the document, or a record with more fields for  *)
(* an inserted HTML fragment (the fragments hold no delimiter, backslash   *)
(* or newline character, so each is one element that is none of them).     *)
(* The two characters of the math delimiter of line 60 are written "A^"    *)
(* and "GBP".                                                              *)
(***************************************************************************)
EXTENDS Integers, Sequences, FiniteSets, TLC

VARIABLES
    file,          \* latex.cache on disk: [state, lines]
    cached,        \* LaTeXPreprocessor.cached, the class-level dict (line 34)
    tex_preamble,  \* self.tex_preamble of the live preprocessor
    pc,            \* "none": no preprocessor yet; "idle"; "loop": inside run()
    lines,         \* the argument of the current or last run()
    result,        \* what the last run() returned
    page,          \* local page of run()
    tex_expr,      \* local tex_expr of run()
    idx,           \* position of the for loop of line 165 in tex_expr
    new_cache,     \* local new_cache of run(), a dict in insertion order
    id,            \* local id of run()
    invoked,       \* the external tools called by the current or last run()
    disk,          \* the temporary files on disk, as <<path, extension>>
    ntmp,          \* how many temporary names mkstemp has handed out
    runs           \* how many times run() has been called

vars == <<file, cached, tex_preamble, pc, lines, result, page, tex_expr, idx,
          new_cache, id, invoked, disk, ntmp, runs>>

-----------------------------------------------------------------------------
(* Bounds of the model.                                                    *)

\* run() calls in the specification with several runs
MaxRuns == 2
\* regions per document in the specification with several runs
MaxItems == 2
\* regions and characters per document in the specification of one run
MaxRichItems == 3
\* characters after the region in the specification of the unescaping
MaxTail == 4

-----------------------------------------------------------------------------
(* Characters and texts.                                                   *)

Bsl == "\\"
NL == "\n"

Ch(c) == [c |-> c]

Str(s) == [i \in 1..Len(s) |-> Ch(s[i])]

RECURSIVE Flatten(_)
Flatten(ss) == IF ss = <<>> THEN <<>> ELSE Head(ss) \o Flatten(Tail(ss))

Min(S) == CHOOSE x \in S : \A y \in S : x <= y

\* Join with the separator left out: "".join(lines).
JoinNoSeparator(ls) == Flatten(ls)

\* "\n".join(lines)
RECURSIVE Join(_)
Join(ls) ==
    IF ls = <<>> THEN <<>>
    ELSE IF Len(ls) = 1 THEN ls[1]
    ELSE ls[1] \o <<Ch(NL)>> \o Join(Tail(ls))

\* page.split("\n")
RECURSIVE Split(_)
Split(p) ==
    LET nls == {i \in 1..Len(p) : p[i] = Ch(NL)}
    IN  IF nls = {} THEN <<p>>
        ELSE LET i == Min(nls)
             IN  <<SubSeq(p, 1, i - 1)>> \o Split(SubSeq(p, i + 1, Len(p)))

\* True when the characters of tok stand at position i of p.
IsAt(p, tok, i) ==
    /\ i >= 1
    /\ i + Len(tok) - 1 <= Len(p)
    /\ \A k \in 1..Len(tok) : p[i + k - 1] = Ch(tok[k])

\* str.replace(old, new): every non-overlapping occurrence, left to right.
RECURSIVE ReplaceFrom(_, _, _, _)
ReplaceFrom(p, old, new, i) ==
    IF i > Len(p) THEN <<>>
    ELSE IF IsAt(p, old, i) THEN new \o ReplaceFrom(p, old, new, i + Len(old))
    ELSE <<p[i]>> \o ReplaceFrom(p, old, new, i + 1)

Replace(p, old, new) == ReplaceFrom(p, old, new, 1)

-----------------------------------------------------------------------------
(* Configuration (lines 56-61) and the regular expressions (lines 63-73).  *)

config_preamble == <<>>
delim_text == <<"%">>
delim_math == <<"A^", "GBP">>
delim_preamble == <<"%", "%">>

\* A compiled expression (?<!\\)delim(.+?)(?<!\\)delim is represented by its
\* delimiter; Search, FindAll and Sub1 below match it.
build_regexp(delim) == delim

re_textmode == build_regexp(delim_text)
re_mathmode == build_regexp(delim_math)
re_preamblemode == build_regexp(delim_preamble)

\* (?<!\\): the element before position i is not a backslash.
NotEscaped(p, i) == i = 1 \/ p[i - 1] # Ch(Bsl)

\* The positions where the closing delimiter of a region opened at i can stand:
\* (.+?) takes at least one element, and DOTALL lets it take any.
Closers(p, reg, i) ==
    {j \in (i + Len(reg) + 1)..Len(p) : IsAt(p, reg, j) /\ NotEscaped(p, j)}

MatchAt(p, reg, i) ==
    IsAt(p, reg, i) /\ NotEscaped(p, i) /\ Closers(p, reg, i) # {}

NoMatch == [s |-> 0, g |-> <<>>, e |-> 0]

\* reg.search(p, from): the leftmost match, its group the shortest possible.
Search(p, reg, from) ==
    LET starts == {i \in from..Len(p) : MatchAt(p, reg, i)}
    IN  IF starts = {} THEN NoMatch
        ELSE LET i == Min(starts)
                 j == Min(Closers(p, reg, i))
             IN  [s |-> i, g |-> SubSeq(p, i + Len(reg), j - 1),
                  e |-> j + Len(reg) - 1]

\* reg.findall(p): the groups of the successive non-overlapping matches.
RECURSIVE FindAllFrom(_, _, _)
FindAllFrom(p, reg, from) ==
    LET m == Search(p, reg, from)
    IN  IF m.s = 0 THEN <<>> ELSE <<m.g>> \o FindAllFrom(p, reg, m.e + 1)

FindAll(p, reg) == FindAllFrom(p, reg, 1)

\* reg.sub(repl, p, 1): the first match replaced, p itself when there is none.
Sub1(p, reg, repl) ==
    LET m == Search(p, reg, 1)
    IN  IF m.s = 0 THEN p
        ELSE SubSeq(p, 1, m.s - 1) \o repl \o SubSeq(p, m.e + 1, Len(p))

-----------------------------------------------------------------------------
(* The cache file, the content hash and the compile pipeline.              *)

SP == Ch(" ")

\* hashlib.md5(expr.encode('utf-8')).hexdigest(): a digest that depends on
\* the text alone, a text of one element (collisions of MD5 are not
\* modelled).
MD5(expr) == <<[md5 |-> expr]>>

\* "%s %s\n" % (key, value), without the newline that ends the line.
FormatLine(key, value) == key \o <<SP>> \o value

\* line.split(" ")
RECURSIVE SplitFields(_)
SplitFields(line) ==
    LET sps == {i \in 1..Len(line) : line[i] = SP}
    IN  IF sps = {} THEN <<line>>
        ELSE LET i == Min(sps)
             IN  <<SubSeq(line, 1, i - 1)>>
                     \o SplitFields(SubSeq(line, i + 1, Len(line)))

\* key, val = ... : unpacking raises ValueError unless there are two fields.
Unpacks(line) == Len(SplitFields(line)) = 2

\* dict assignment d[key] = val on a function.
DictPut(d, key, val) ==
    [k \in DOMAIN d \cup {key} |-> IF k = key THEN val ELSE d[k]]

\* LoadLines with the try inside the loop: a malformed line is passed over
\* and the lines after it are read.
RECURSIVE LoadLinesSkipping(_, _)
LoadLinesSkipping(d, ls) ==
    IF ls = <<>> THEN d
    ELSE IF ~Unpacks(Head(ls)) THEN LoadLinesSkipping(d, Tail(ls))
    ELSE LET f == SplitFields(Head(ls))
         IN  LoadLinesSkipping(DictPut(d, f[1], f[2]), Tail(ls))

\* Lines 50-52: the loop over the lines, which the first exception ends.
RECURSIVE LoadLines(_, _)
LoadLines(d, ls) ==
    IF ls = <<>> THEN d
    ELSE IF ~Unpacks(Head(ls)) THEN d
    ELSE LET f == SplitFields(Head(ls))
         IN  LoadLines(DictPut(d, f[1], f[2]), Tail(ls))

\* Lines 48-54: open('latex.cache', 'r+') raises for a missing file and for
\* one the process may not read and write; `except Exception: pass`.
LoadCache(d, f) == IF f.state = "ok" THEN LoadLines(d, f.lines) ELSE d

\* The class attribute of lines 37-45, one element.
BasePreamble == <<Ch("\\documentclass{article}...\\pagestyle{empty}\n")>>

\* "\n\\begin{document}\n" of line 152.
BeginDocument == <<Ch(NL), Ch("\\begin{document}"), Ch(NL)>>

\* Lines 83-91: what is written to the temporary file.
CompileDoc(preamble, tex, math_mode) ==
    preamble
        \o (IF math_mode THEN <<Ch("$")>> \o tex \o <<Ch("$")>> ELSE tex)
        \o <<Ch(NL), Ch("\\end{document}")>>

\* Lines 119-126: the base64 text of the image that latex and dvipng make
\* of a document; the tools are deterministic in the document.
Base64Png(doc) == <<[b64 |-> doc]>>

\* data = "" of line 177.
EmptyData == <<>>

AllExtensions == <<"", ".aux", ".dvi", ".png", ".log">>

\* Lines 130-132: extensions.pop() drops the last one, ".log".
CleanupExtensions(err) ==
    IF err THEN SubSeq(AllExtensions, 1, Len(AllExtensions) - 1)
    ELSE AllExtensions

\* _cleanup without its err flag: the log is removed as well.
cleanupAll(d, path, err) ==
    d \ {<<path, AllExtensions[k]>> : k \in 1..Len(AllExtensions)}

\* _cleanup (lines 128-139): os.remove of each, missing files passed over.
cleanup(d, path, err) ==
    LET exts == CleanupExtensions(err)
    IN  d \ {<<path, exts[k]>> : k \in 1..Len(exts)}

\* The outcomes of one call of _latex_to_base64: the exit statuses of the
\* two tools.
Outcomes == {"ok", "latex_failed", "dvipng_failed"}

\* The files a compile attempt leaves before _cleanup: the source written by
\* lines 81-92, latex's .aux and .log, its .dvi when it exits 0, and
\* dvipng's .png when that exits 0.
FilesWritten(path, outcome) ==
    {<<path, "">>, <<path, ".aux">>, <<path, ".log">>}
        \cup (IF outcome # "latex_failed" THEN {<<path, ".dvi">>} ELSE {})
        \cup (IF outcome = "ok" THEN {<<path, ".png">>} ELSE {})

\* The tool calls of one attempt (lines 95 and 110).
ToolCalls(path, key, doc, outcome) ==
    <<[tool |-> "latex", path |-> path, key |-> key, doc |-> doc,
       status |-> IF outcome = "latex_failed" THEN 1 ELSE 0]>>
    \o (IF outcome = "latex_failed" THEN <<>>
        ELSE <<[tool |-> "dvipng", path |-> path, key |-> key, doc |-> doc,
                status |-> IF outcome = "dvipng_failed" THEN 1 ELSE 0]>>)

\* _latex_to_base64 (lines 77-126) under one outcome of the tools: whether it
\* raised, the data it returned, and the disk it leaves.  mkstemp hands out
\* a name it has not handed out before.
latex_to_base64(tex, math_mode, outcome) ==
    LET path == ntmp + 1
        doc == CompileDoc(tex_preamble, tex, math_mode)
        written == disk \cup FilesWritten(path, outcome)
    IN  [raised |-> outcome # "ok",
         data |-> IF outcome = "ok" THEN Base64Png(doc) ELSE EmptyData,
         disk |-> cleanup(written, path, outcome # "ok"),
         calls |-> ToolCalls(path, MD5(tex), doc, outcome)]

\* new_cache[key] = val on a dict kept in insertion order.
OrderedPut(d, key, val) ==
    IF \E k \in 1..Len(d) : d[k].key = key
    THEN [k \in 1..Len(d) |->
            IF d[k].key = key THEN [key |-> key, val |-> val] ELSE d[k]]
    ELSE Append(d, [key |-> key, val |-> val])

\* Lines 203-204: one line per entry of new_cache.
CacheLines(d) == [k \in 1..Len(d) |-> FormatLine(d[k].key, d[k].val)]

-----------------------------------------------------------------------------
(* The inserted HTML fragments (lines 17-21 and 190).                      *)

\* simp_expr + "_" + str(id)
IdAttr(simp_expr, n) == simp_expr \o <<Ch("_"), [n |-> n]>>

\* IMG_EXPR % (alt, id, data)
IMG_EXPR(alt, idattr, data) ==
    <<[c |-> "<div class='latex-box math-false'><img ...></div>",
       alt |-> alt, id |-> idattr, data |-> data]>>

\* INLINE_IMG_EXPR % (alt, id, data)
INLINE_IMG_EXPR(alt, idattr, data) ==
    <<[c |-> "<img class='math-true' ...>",
       alt |-> alt, id |-> idattr, data |-> data]>>

\* "<p>{}</p>".format("ERROR")
ErrorMarker == <<Ch("<p>ERROR</p>")>>

IsTag(el) == "alt" \in DOMAIN el

-----------------------------------------------------------------------------
(* The documents and cache files the model runs on.                        *)

TextA == <<"%", "a", "%">>
MathA == <<"A^", "GBP", "a", "A^", "GBP">>
PreambleP == <<"%", "%", "p", "%", "%">>
PreambleQ == <<"%", "%", "q", "%", "%">>

\* Whole regions: the documents of the specification with several runs.
Items == {TextA, MathA, PreambleP}

\* Regions and single characters, among them bare delimiters and
\* backslashes: the documents of the specification of one run.
RichItems ==
    {TextA, MathA, PreambleP, PreambleQ,
     <<"%">>, <<"A^", "GBP">>, <<Bsl>>, <<"b">>, <<NL>>}

\* The characters that follow the region in the documents of the
\* specification of the unescaping.
TailItems == {<<Bsl>>, <<"%">>, <<"A^", "GBP">>, <<"b">>}

\* The texts made of at most n of the given items.
DocsOf(I, n) ==
    {Str(Flatten(s)) : s \in UNION {[1..k -> I] : k \in 0..n}}

\* The texts made of the given start and at most n of the given items.
DocsAfter(start, I, n) == {Str(start) \o d : d \in DocsOf(I, n)}

EmptyDict == [k \in {} |-> <<>>]

\* An entry that an earlier process wrote for the text "a", compiled in math
\* mode without any preamble fragment.
OldPayload ==
    Base64Png(CompileDoc(BasePreamble \o BeginDocument, Str(<<"a">>), TRUE))

GoodLine == FormatLine(MD5(Str(<<"a">>)), OldPayload)
OtherLine == FormatLine(MD5(Str(<<"z">>)), OldPayload)
NoSpaceLine == <<Ch("junk")>>
ThreeFieldLine == OtherLine \o <<SP, Ch("junk")>>

\* Files whose lines are all well formed, no file, and a file the process
\* may not open.
SoundFiles ==
    {[state |-> "missing", lines |-> <<>>],
     [state |-> "ok", lines |-> <<>>],
     [state |-> "ok", lines |-> <<GoodLine>>],
     [state |-> "denied", lines |-> <<GoodLine>>]}

\* Files with a malformed line.
MalformedFiles ==
    {[state |-> "ok", lines |-> <<GoodLine, NoSpaceLine, OtherLine>>],
     [state |-> "ok", lines |-> <<ThreeFieldLine, GoodLine>>],
     [state |-> "ok", lines |-> <<OtherLine, <<>>, GoodLine>>]}

NoResult == [state |-> "none", lines |-> <<>>]

-----------------------------------------------------------------------------
(* The state before any preprocessor exists.                               *)

InitOn(files) ==
    /\ file \in files
    /\ cached = EmptyDict
    /\ tex_preamble = BasePreamble
    /\ pc = "none"
    /\ lines = <<>>
    /\ result = NoResult
    /\ page = <<>>
    /\ tex_expr = <<>>
    /\ idx = 1
    /\ new_cache = <<>>
    /\ id = 0
    /\ invoked = <<>>
    /\ disk = {}
    /\ ntmp = 0
    /\ runs = 0

Init == InitOn(SoundFiles)

-----------------------------------------------------------------------------
(* LaTeXPreprocessor.__init__ (lines 47-73): a new preprocessor replaces   *)
(* the live one.  The entries go into the class-level dict; the new        *)
(* object sees the class attribute tex_preamble.                           *)

Construct ==
    /\ pc \in {"none", "idle"}
    /\ cached' = LoadCache(cached, file)
    /\ tex_preamble' = BasePreamble
    /\ pc' = "idle"
    /\ UNCHANGED <<file, lines, result, page, tex_expr, idx, new_cache, id,
                   invoked, disk, ntmp, runs>>

-----------------------------------------------------------------------------
(* run(), lines 141-160: the preamble fragments, the expressions and the   *)
(* early return.                                                           *)

\* Lines 149-151: for each fragment found in the page as it was, the
\* fragment is appended and the first match of the page as it is now is
\* removed.
RECURSIVE AbsorbPreambles(_, _, _)
AbsorbPreambles(pre, p, preambles) ==
    IF preambles = <<>> THEN [pre |-> pre, page |-> p]
    ELSE AbsorbPreambles(pre \o Head(preambles) \o <<Ch(NL)>>,
                         Sub1(p, re_preamblemode, <<>>),
                         Tail(preambles))

\* Lines 155-156.
Expressions(p) ==
    LET t == FindAll(p, re_textmode)
        m == FindAll(p, re_mathmode)
    IN  [k \in 1..Len(t) |->
            [reg |-> re_textmode, math_mode |-> FALSE, expr |-> t[k]]]
        \o [k \in 1..Len(m) |->
            [reg |-> re_mathmode, math_mode |-> TRUE, expr |-> m[k]]]

\* The host hands run() the lines of its source, source.split("\n").
RunBegin(docs, maxRuns) ==
    /\ pc = "idle"
    /\ runs < maxRuns
    /\ \E src \in docs :
        LET ls == Split(src)
            page0 == Join(ls)
            absorbed == AbsorbPreambles(tex_preamble \o config_preamble, page0,
                                        FindAll(page0, re_preamblemode))
            exprs == Expressions(absorbed.page)
        IN  /\ lines' = ls
            /\ tex_preamble' = absorbed.pre \o BeginDocument
            /\ page' = absorbed.page
            /\ tex_expr' = exprs
            /\ IF exprs = <<>>
               THEN /\ pc' = "idle"
                    /\ result' = [state |-> "returned",
                                  lines |-> Split(absorbed.page)]
               ELSE /\ pc' = "loop"
                    /\ result' = NoResult
    /\ idx' = 1
    /\ new_cache' = <<>>
    /\ id' = 0
    /\ invoked' = <<>>
    /\ runs' = runs + 1
    /\ UNCHANGED <<file, cached, disk, ntmp>>

-----------------------------------------------------------------------------
(* run(), lines 165-190: one turn of the loop over tex_expr.               *)

\* Lines 180-190: the fragment that replaces the first match of reg.
Replacement(math_mode, simp_expr, n, data) ==
    IF data # EmptyData
    THEN IF math_mode
         THEN INLINE_IMG_EXPR(simp_expr, IdAttr(simp_expr, n), data)
         ELSE IMG_EXPR(simp_expr, IdAttr(simp_expr, n), data)
    ELSE ErrorMarker

\* The lookup of line 169 made for text-mode expressions only.
CacheHitTextOnly(t) == ~t.math_mode /\ MD5(t.expr) \in DOMAIN cached

\* Line 169 for the entry t of tex_expr: simp_expr in self.cached
CacheHit(t) == MD5(t.expr) \in DOMAIN cached

Step ==
    /\ pc = "loop"
    /\ idx <= Len(tex_expr)
    /\ LET t == tex_expr[idx]
           simp_expr == MD5(t.expr)
       IN  \/ /\ CacheHit(t)
              /\ page' = Sub1(page, t.reg,
                              Replacement(t.math_mode, simp_expr, id + 1,
                                          cached[simp_expr]))
              /\ UNCHANGED <<new_cache, invoked, disk, ntmp>>
           \/ /\ ~CacheHit(t)
              /\ \E outcome \in Outcomes :
                    LET r == latex_to_base64(t.expr, t.math_mode, outcome)
                    IN  /\ page' = Sub1(page, t.reg,
                                        Replacement(t.math_mode, simp_expr,
                                                    id + 1, r.data))
                        /\ new_cache' =
                              IF r.raised THEN new_cache
                              ELSE OrderedPut(new_cache, simp_expr, r.data)
                        /\ invoked' = invoked \o r.calls
                        /\ disk' = r.disk
                        /\ ntmp' = ntmp + 1
    /\ id' = id + 1
    /\ idx' = idx + 1
    /\ UNCHANGED <<file, cached, tex_preamble, pc, lines, result, tex_expr,
                   runs>>

-----------------------------------------------------------------------------
(* run(), lines 192-208: unescaping, the cache file, the return.           *)

\* Lines 193-197.
tokens == <<delim_preamble, delim_text, delim_math, <<Bsl>>>>

\* Lines 198-199: page.replace('\\' + tok, tok) for each token in turn.
RECURSIVE UnescapeWith(_, _)
UnescapeWith(p, toks) ==
    IF toks = <<>> THEN p
    ELSE UnescapeWith(Replace(p, <<Bsl>> \o Head(toks), Str(Head(toks))),
                      Tail(toks))

Unescape(p) == UnescapeWith(p, tokens)

\* Lines 202-205: open('latex.cache', 'a') creates a missing file and raises
\* for one the process may not write.
AppendCache(f, d) ==
    [state |-> "ok", lines |-> f.lines \o CacheLines(d)]

RunEnd ==
    /\ pc = "loop"
    /\ idx > Len(tex_expr)
    /\ page' = Unescape(page)
    /\ IF file.state = "denied"
       THEN /\ result' = [state |-> "raised", lines |-> <<>>]
            /\ file' = file
       ELSE /\ result' = [state |-> "returned", lines |-> Split(page')]
            /\ file' = AppendCache(file, new_cache)
    /\ pc' = "idle"
    /\ UNCHANGED <<cached, tex_preamble, lines, tex_expr, idx, new_cache, id,
                   invoked, disk, ntmp, runs>>

-----------------------------------------------------------------------------
(* The specifications.  Spec: any number of preprocessors, MaxRuns runs    *)
(* over documents of whole regions.  SpecRun: one run over documents of    *)
(* regions and single characters, the cache file possibly malformed.       *)
(* SpecEsc: one run over documents of one text region followed by          *)
(* backslashes, delimiters and letters.                                    *)

Docs == DocsOf(Items, MaxItems)

Run == RunBegin(Docs, MaxRuns)

RichDocs == DocsOf(RichItems, MaxRichItems)

RunRich == RunBegin(RichDocs, 1)

Next == Construct \/ Run \/ Step \/ RunEnd

Spec == Init /\ [][Next]_vars

InitRun == InitOn(SoundFiles \cup MalformedFiles)

NextRun == Construct \/ RunRich \/ Step \/ RunEnd

SpecRun == InitRun /\ [][NextRun]_vars

EscDocs == DocsAfter(TextA, TailItems, MaxTail)

RunEsc == RunBegin(EscDocs, 1)

NextEsc == Construct \/ RunEsc \/ Step \/ RunEnd

SpecEsc == Init /\ [][NextEsc]_vars

-----------------------------------------------------------------------------
(* Properties.                                                             *)

LatexCalls(key) ==
    {k \in DOMAIN invoked :
        invoked[k].tool = "latex" /\ invoked[k].key = key}

TagsOf(p) == {i \in DOMAIN p : IsTag(p[i])}

\* C1: within one run the compiler is called at most once for each
\* expression text, and the image tags of one text carry the same payload
\* and different ids.
C1_CompiledOncePerText ==
    /\ \A k \in DOMAIN invoked :
          Cardinality(LatexCalls(invoked[k].key)) <= 1
    /\ \A i, j \in TagsOf(page) :
          page[i].alt = page[j].alt
              => /\ page[i].data = page[j].data
                 /\ i # j => page[i].id # page[j].id

\* The first field of a line of the cache file.
KeyOfLine(line) == SplitFields(line)[1]

\* C2: an expression whose entry is in latex.cache (written by an earlier
\* run or there from the start; every line of the files of Spec is well
\* formed) is not compiled again by a later run, and no second line is
\* written for it.
C2_ReusedInNextRun ==
    file.state = "ok" =>
        /\ pc = "loop" =>
              \A k \in DOMAIN invoked : \A i \in DOMAIN file.lines :
                  KeyOfLine(file.lines[i]) # invoked[k].key
        /\ \A i, j \in DOMAIN file.lines :
              i # j => KeyOfLine(file.lines[i]) # KeyOfLine(file.lines[j])

\* C3: when the compiler or the rasterizer exits non-zero for an expression,
\* no cache entry is recorded for its hash (the part of the claim about the
\* cache; the marker's place is the matter of C5).
C3_FailureLeavesNoEntry ==
    \A k \in DOMAIN invoked :
        invoked[k].status # 0 =>
            /\ invoked[k].key \notin DOMAIN cached
            /\ \A n \in DOMAIN new_cache : new_cache[n].key # invoked[k].key

\* The fragments of a page in document order, each followed by a newline.
Fragments(p) ==
    LET fs == FindAll(p, re_preamblemode)
    IN  Flatten([k \in 1..Len(fs) |-> fs[k] \o <<Ch(NL)>>])

\* C4: the preamble of every document handed to the compiler in a run is the
\* base template, the configured preamble, the fragments of that run's
\* document and the begin-document line, and nothing else.
C4_PreambleOfThisRun ==
    \A k \in DOMAIN invoked :
        LET tex == invoked[k].key[1].md5
            pre == BasePreamble \o config_preamble
                       \o Fragments(Join(lines)) \o BeginDocument
        IN  invoked[k].doc \in
                {CompileDoc(pre, tex, TRUE), CompileDoc(pre, tex, FALSE)}

\* C5: each substitution of the loop replaces the region its expression was
\* extracted from: when an expression's turn comes, its regular expression
\* matches the page and the first match holds that expression.
C5_ReplacesOwnRegion ==
    (pc = "loop" /\ idx <= Len(tex_expr)) =>
        LET m == Search(page, tex_expr[idx].reg, 1)
        IN  m.s # 0 /\ m.g = tex_expr[idx].expr

NoRegion(p) ==
    /\ Search(p, re_preamblemode, 1) = NoMatch
    /\ Search(p, re_textmode, 1) = NoMatch
    /\ Search(p, re_mathmode, 1) = NoMatch

\* C6: run() on a document without any preamble, text or math region returns
\* its input lines, calls no tool and leaves latex.cache as it is.
C6_NoRegionNoOp ==
    [][(pc = "idle" /\ runs' = runs + 1 /\ NoRegion(Join(lines')))
          => /\ pc' = "idle"
             /\ result' = [state |-> "returned", lines |-> lines']
             /\ invoked' = <<>>
             /\ ntmp' = ntmp
             /\ disk' = disk
             /\ file' = file]_vars

\* C6, witness: a run has returned on a document of several lines with an
\* escaped delimiter and no region.
C6_Witness ==
    /\ pc = "idle"
    /\ runs = 1
    /\ result = [state |-> "returned", lines |-> lines]
    /\ NoRegion(Join(lines))
    /\ Len(lines) > 1
    /\ \E i \in DOMAIN page : IsAt(page, <<Bsl, "%">>, i)

\* One pass from left to right: a backslash followed by a delimiter or a
\* backslash is dropped and what follows it is kept as it is.
RECURSIVE UnescapeOnceFrom(_, _)
UnescapeOnceFrom(p, i) ==
    IF i > Len(p) THEN <<>>
    ELSE IF /\ p[i] = Ch(Bsl)
            /\ \E k \in DOMAIN tokens : IsAt(p, tokens[k], i + 1)
         THEN <<p[i + 1]>> \o UnescapeOnceFrom(p, i + 2)
         ELSE <<p[i]>> \o UnescapeOnceFrom(p, i + 1)

\* C7: the unescaping of run() removes one backslash for each escaped
\* delimiter or backslash, unescapes nothing twice and changes nothing else.
C7_UnescapedOnce ==
    (pc = "loop" /\ idx > Len(tex_expr))
        => Unescape(page) = UnescapeOnceFrom(page, 1)

WellFormed(line) == Cardinality({i \in DOMAIN line : line[i] = SP}) = 1

Malformed(f) == \E i \in DOMAIN f.lines : ~WellFormed(f.lines[i])

\* The lines before the first malformed line of a file that opens.
LoadedLines(f) ==
    IF f.state # "ok" THEN {}
    ELSE {i \in DOMAIN f.lines : \A j \in 1..i : WellFormed(f.lines[j])}

SpaceOf(line) == CHOOSE i \in DOMAIN line : line[i] = SP

\* C8 as claimed: after construction on a file that is missing, cannot be
\* opened or holds a malformed line, no entry of the file is in the cache.
C8_MalformedLoadsNothing ==
    (pc = "idle" /\ runs = 0 /\ (file.state # "ok" \/ Malformed(file)))
        => cached = EmptyDict

\* C8 as amended: construction completes; it loads nothing from a file that
\* is missing or cannot be opened, and from a file with a malformed line it
\* loads the entries of the lines before the first malformed line and no
\* other, a later line of a key replacing an earlier one.
C8_LoadsUpToFirstMalformed ==
    [][(pc \in {"none", "idle"} /\ pc' = "idle" /\ runs' = runs)
          => LET L == LoadedLines(file)
                 key(i) == SubSeq(file.lines[i], 1, SpaceOf(file.lines[i]) - 1)
                 val(i) == SubSeq(file.lines[i], SpaceOf(file.lines[i]) + 1,
                                  Len(file.lines[i]))
                 keys == {key(i) : i \in L}
             IN  /\ DOMAIN cached' = DOMAIN cached \cup keys
                 /\ \A k \in DOMAIN cached' :
                       IF k \in keys
                       THEN \E i \in L :
                               /\ key(i) = k
                               /\ cached'[k] = val(i)
                               /\ \A j \in L : key(j) = k => j <= i
                       ELSE cached'[k] = cached[k]]_vars

\* C8, witness: a preprocessor was constructed on a file whose second line
\* is malformed, and the entry of the first line is in the cache.
C8_Witness ==
    /\ pc = "idle"
    /\ runs = 0
    /\ file.lines = <<GoodLine, NoSpaceLine, OtherLine>>
    /\ DOMAIN cached = {MD5(Str(<<"a">>))}

\* C9: a compile attempt that succeeded leaves none of its files, and the log
\* of an attempt that failed stays on disk through the rest of the run.
C9_TemporaryFiles ==
    \A k \in DOMAIN invoked :
        /\ invoked[k].status # 0 => <<invoked[k].path, ".log">> \in disk
        /\ (invoked[k].tool = "dvipng" /\ invoked[k].status = 0)
              => \A e \in DOMAIN AllExtensions :
                    <<invoked[k].path, AllExtensions[e]>> \notin disk

\* C9, witness: in one run an attempt failed, a later one succeeded, and the
\* log of the first is on disk.
C9_Witness ==
    \E i, j \in DOMAIN invoked :
        /\ i < j
        /\ invoked[i].status # 0
        /\ invoked[j].tool = "dvipng"
        /\ invoked[j].status = 0
        /\ invoked[i].path # invoked[j].path
        /\ <<invoked[i].path, ".log">> \in disk

\* C10: when the hash of an expression's text is in the cache, its turn of
\* the loop calls no tool, writes no file and records nothing, and what it
\* puts into the page is the image tag of the expression's mode with the
\* stored payload.
C10_HitUsesStoredPayload ==
    [][(/\ pc = "loop"
        /\ idx <= Len(tex_expr)
        /\ idx' = idx + 1
        /\ MD5(tex_expr[idx].expr) \in DOMAIN cached)
          => LET t == tex_expr[idx]
                 key == MD5(t.expr)
             IN  /\ invoked' = invoked
                 /\ ntmp' = ntmp
                 /\ disk' = disk
                 /\ new_cache' = new_cache
                 /\ page' = Sub1(page, t.reg,
                                 IF t.math_mode
                                 THEN INLINE_IMG_EXPR(key, IdAttr(key, idx),
                                                      cached[key])
                                 ELSE IMG_EXPR(key, IdAttr(key, idx),
                                               cached[key]))]_vars

\* C10, witness: a text-mode region was replaced, without any tool call, by
\* a tag whose payload was compiled in math mode under another preamble.
C10_Witness ==
    /\ invoked = <<>>
    /\ tex_preamble # BasePreamble \o BeginDocument
    /\ \E i \in TagsOf(page) :
          /\ page[i].c = IMG_EXPR(<<>>, <<>>, <<>>)[1].c
          /\ page[i].data = OldPayload
          /\ OldPayload[1].b64 =
                CompileDoc(BasePreamble \o BeginDocument, Str(<<"a">>), TRUE)

====
